---- MODULE Spec2Model ----
(***************************************************************************)
(* Routing and search core of the question-answering API (ask/logic.py)    *)
(* and its HTTP entry point (ask/views.py).                                *)
(*                                                                         *)
(* Text is modelled as a sequence of one-character strings, so that        *)
(* tokenisation, substring tests, the article pattern and truncation are   *)
(* computed character by character.  An Optional value is a record         *)
(* [some, val]; a float confidence is the integer number of hundredths     *)
(* (0.37 is 37).                                                           *)
(***************************************************************************)
EXTENDS Integers, Sequences, FiniteSets, TLC

\* ------------------------------------------------------------ characters

UpperChars == <<"A","B","C","D","E","F","G","H","I","J","K","L","M",
                "N","O","P","Q","R","S","T","U","V","W","X","Y","Z">>
LowerChars == <<"a","b","c","d","e","f","g","h","i","j","k","l","m",
                "n","o","p","q","r","s","t","u","v","w","x","y","z">>
DigitChars == {"0","1","2","3","4","5","6","7","8","9"}
SpaceChars == {" ", "\n", "\t"}

Range(s) == {s[i] : i \in DOMAIN s}

UpperSet == Range(UpperChars)
LowerSet == Range(LowerChars)
AlnumSet == UpperSet \cup LowerSet \cup DigitChars

\* the position of a letter in its alphabet
LetterIndex(letters, c) == CHOOSE i \in DOMAIN letters : letters[i] = c

\* str.lower() on one character
LowerChar(c) ==
  IF c \in UpperSet THEN LowerChars[LetterIndex(UpperChars, c)] ELSE c

\* a function on 1..n as the sequence of its values
AsSeq(f, n) == SubSeq(f, 1, n)

\* str.lower()
Lower(s) == AsSeq([i \in 1..Len(s) |-> LowerChar(s[i])], Len(s))

\* str.upper() on one character
UpperChar(c) ==
  IF c \in LowerSet THEN UpperChars[LetterIndex(LowerChars, c)] ELSE c

Upper(s) == AsSeq([i \in 1..Len(s) |-> UpperChar(s[i])], Len(s))

IsDigit(c) == c \in DigitChars

IsSpace(c) == c \in SpaceChars

\* a finite set of integers in increasing order
RECURSIVE Ascending(_)
Ascending(S) ==
  IF S = {} THEN <<>>
  ELSE LET m == CHOOSE x \in S : \A y \in S : x <= y
       IN <<m>> \o Ascending(S \ {m})

\* the maximal runs in s of the characters c with (c \in chars) = member,
\* left to right
Runs(s, chars, member) ==
  LET inside == {i \in 1..Len(s) : (s[i] \in chars) = member}
      starts == Ascending({i \in inside : i - 1 \notin inside})
      ends == Ascending({j \in inside : j + 1 \notin inside})
  IN AsSeq([k \in 1..Len(starts) |-> SubSeq(s, starts[k], ends[k])],
           Len(starts))

\* Python's `p in s` for strings
IsSubstring(p, s) ==
  \E i \in 0..(Len(s) - Len(p)) : SubSeq(s, i + 1, i + Len(p)) = p

\* str.strip()
RECURSIVE LStrip(_)
LStrip(s) == IF s # <<>> /\ IsSpace(Head(s)) THEN LStrip(Tail(s)) ELSE s

RECURSIVE RStrip(_)
RStrip(s) ==
  IF s # <<>> /\ IsSpace(s[Len(s)]) THEN RStrip(SubSeq(s, 1, Len(s) - 1)) ELSE s

Strip(s) == RStrip(LStrip(s))

\* " ".join(parts)
RECURSIVE JoinSpace(_)
JoinSpace(parts) ==
  IF parts = <<>> THEN <<>>
  ELSE IF Len(parts) = 1 THEN parts[1]
  ELSE parts[1] \o <<" ">> \o JoinSpace(Tail(parts))

\* Optional values
None == [some |-> FALSE, val |-> <<>>]
Some(v) == [some |-> TRUE, val |-> v]
\* truthiness of an Optional[str]: None and "" are falsy
Truthy(o) == o.some /\ o.val # <<>>

\* ------------------------------------------------------------- constants

GEO_KEYWORDS ==
  { <<"g","e","o">>,
    <<"g","e","o","d","a","t","a">>,
    <<"m","a","p">>,
    <<"k","a","a","r","t">>,
    <<"b","o","d","e","m">>,
    <<"g","r","o","n","d">>,
    <<"m","o","b","i","s","c","o","r","e">>,
    <<"o","v","e","r","s","t","r","o","m">>,
    <<"w","a","t","e","r">>,
    <<"w","e","g">>,
    <<"l","u","c","h","t">>,
    <<"h","o","o","g","t","e">>,
    <<"d","i","s","t","a","n","c","e">>,
    <<"o","v","e","r","l","a","p">>,
    <<"r","i","v","i","e","r">>,
    <<"g","e","b","i","e","d">> }

REGULATION_KEYWORDS ==
  { <<"r","e","g","u","l","a","t","i","o","n">>,
    <<"v","e","r","o","r","d","e","n","i","n","g">>,
    <<"a","r","t","i","k","e","l">>,
    <<"a","r","t",".">>,
    <<"b","o","u","w">>,
    <<"b","o","u","w","v","l","a","k">>,
    <<"b","o","u","w","l","a","a","g">>,
    <<"b","o","s","d","e","c","r","e","e","t">>,
    <<"g","r","o","e","n">>,
    <<"v","e","r","g","u","n","n","i","n","g">>,
    <<"v","o","o","r","s","c","h","r","i","f","t">>,
    <<"b","e","s","t","e","m","m","i","n","g">>,
    <<"s","l","o","o","p">>,
    <<"o","m","g","e","v","i","n","g","s","v","e","r","g","u","n","n","i","n","g">> }

STOPWORDS ==
  { <<"t","h","e">>,
    <<"a">>,
    <<"a","n">>,
    <<"a","n","d">>,
    <<"o","r">>,
    <<"t","o">>,
    <<"o","f">>,
    <<"i","n">>,
    <<"o","n">>,
    <<"f","o","r">>,
    <<"i","s">>,
    <<"a","r","e">>,
    <<"w","a","t">>,
    <<"w","a","a","r">>,
    <<"h","o","e">>,
    <<"e","e","n">>,
    <<"d","e">>,
    <<"h","e","t">>,
    <<"e","n">>,
    <<"m","e","t">>,
    <<"v","a","n">>,
    <<"o","p">>,
    <<"i","k">>,
    <<"w","e">>,
    <<"w","h","a","t">>,
    <<"w","h","i","c","h">>,
    <<"d","e","f","i","n","e">>,
    <<"e","x","p","l","a","i","n">>,
    <<"o","v","e","r">>,
    <<"a","b","o","u","t">> }


\* ------------------------------------------------------------- tokenizer

\* TOKEN_RE.findall(s): the maximal runs of [a-zA-Z0-9], left to right
TOKEN_RE_findall(s) == Runs(s, AlnumSet, TRUE)

\* str.isdigit(): non-empty and all digits
IsDigitStr(t) == t # <<>> /\ \A i \in DOMAIN t : IsDigit(t[i])

KeepToken(t) ==
  /\ t \notin STOPWORDS
  /\ ~(IsDigitStr(t) /\ Len(t) = 1)
  /\ ~(Len(t) <= 2)

extract_keywords(question) ==
  SelectSeq(TOKEN_RE_findall(Lower(question)), KeepToken)

normalize_phrase(text) == JoinSpace(TOKEN_RE_findall(Lower(text)))

\* text.split(): the maximal runs of non-whitespace
Split(text) == Runs(text, SpaceChars, FALSE)

collapse_whitespace(text) == JoinSpace(Split(text))

\* ----------------------------------------------------- article reference

\* the end of the run of characters satisfying the class, starting at i
RECURSIVE SpanSpaces(_, _)
SpanSpaces(s, i) ==
  IF i <= Len(s) /\ IsSpace(s[i]) THEN SpanSpaces(s, i + 1) ELSE i

RECURSIVE SpanDigits(_, _)
SpanDigits(s, i) ==
  IF i <= Len(s) /\ IsDigit(s[i]) THEN SpanDigits(s, i + 1) ELSE i

\* ARTICLE_RE = art\.?\s*(\d+(?:\.\d+)?), IGNORECASE, anchored at i:
\* group(1) when it matches there, None otherwise
ArticleMatchAt(s, i) ==
  IF i + 2 > Len(s) \/ Lower(SubSeq(s, i, i + 2)) # <<"a","r","t">> THEN None
  ELSE
    LET j == IF i + 3 <= Len(s) /\ s[i + 3] = "." THEN i + 4 ELSE i + 3
        k == SpanSpaces(s, j)
        e == SpanDigits(s, k)
        f == IF e + 1 <= Len(s) /\ s[e] = "." /\ IsDigit(s[e + 1])
             THEN SpanDigits(s, e + 1) ELSE e
    IN IF e > k THEN Some(SubSeq(s, k, f - 1)) ELSE None

\* ARTICLE_RE.search(s): the leftmost match
ARTICLE_RE_search(s) ==
  LET hits == {i \in 1..Len(s) : ArticleMatchAt(s, i).some}
  IN IF hits = {} THEN None
     ELSE ArticleMatchAt(s, CHOOSE i \in hits : \A h \in hits : i <= h)

ArtPrefix == <<"a","r","t","."," ">>

match_article_reference(question) ==
  LET m == ARTICLE_RE_search(question)
  IN IF ~m.some THEN None ELSE Some(Lower(ArtPrefix \o m.val))

extract_article_id(text) ==
  LET m == ARTICLE_RE_search(text)
  IN IF ~m.some THEN None ELSE Some(Lower(ArtPrefix \o m.val))

\* --------------------------------------------------------- dataset index

safe_value(value) ==
  IF ~value.some THEN None
  ELSE LET cleaned == Strip(value.val)
       IN IF cleaned = <<>> THEN None
          ELSE IF Upper(cleaned) = <<"N","U","L","L">> THEN None
          ELSE Some(cleaned)

\* json.loads(raw) kept only when it is a dict.  A text whose first
\* character is not "{" is either no JSON or no JSON object; object
\* literals do not occur in the datasets of this model, and are taken as
\* the empty mapping.
parse_api_name(raw_value) ==
  IF ~Truthy(raw_value) THEN None
  ELSE IF Head(raw_value.val) # "{" THEN None
  ELSE Some(<<>>)

\* `if not api_name_dict: return None`; the mappings of this model are
\* absent or empty
summarize_api_name(api_name_dict) == None

\* `a or b` on Optional[str]
OrElse(a, b) == IF Truthy(a) THEN a ELSE b

GeoEntry(row) ==
  LET name == OrElse(safe_value(row.name), Some(<<>>)).val
      status == safe_value(row.status)
      distance == safe_value(row.distance_m)
      overlap == safe_value(row.overlap_fraction)
      api_raw == safe_value(row.api_name)
      present == SelectSeq(<<Some(name), status, distance, overlap, api_raw>>,
                           Truthy)
      combined == JoinSpace([i \in 1..Len(present) |-> present[i].val])
  IN [name |-> name,
      status |-> status,
      distance_m |-> distance,
      overlap_fraction |-> overlap,
      api_name_raw |-> api_raw,
      api_name_dict |-> parse_api_name(api_raw),
      tokens |-> Range(extract_keywords(combined))]

\* the body of get_geo_entries
BuildGeoEntries(rows) == [i \in 1..Len(rows) |-> GeoEntry(rows[i])]

\* re.split(r"\n\s*\n", text): a separator runs from a newline to the last
\* newline of the whitespace run that follows it
RECURSIVE BlockScan(_, _, _)
BlockScan(s, i, cur) ==
  IF i > Len(s) THEN <<cur>>
  ELSE
    LET e == SpanSpaces(s, i + 1)
        nls == {j \in (i + 1)..(e - 1) : s[j] = "\n"}
    IN IF s[i] = "\n" /\ nls # {}
       THEN <<cur>> \o
            BlockScan(s, 1 + (CHOOSE j \in nls : \A n \in nls : n <= j), <<>>)
       ELSE BlockScan(s, i + 1, Append(cur, s[i]))

NonEmpty(s) == s # <<>>

split_blocks(text) ==
  LET parts == BlockScan(text, 1, <<>>)
  IN SelectSeq([i \in 1..Len(parts) |-> Strip(parts[i])], NonEmpty)

\* raw_block.splitlines()[0]
FirstLine(s) ==
  LET nls == {i \in 1..Len(s) : s[i] = "\n"}
  IN IF nls = {} THEN s
     ELSE SubSeq(s, 1, (CHOOSE i \in nls : \A n \in nls : i <= n) - 1)

TitleFallback == 60

RegulationBlock(raw_block) ==
  [raw |-> raw_block,
   title |-> IF raw_block # <<>> THEN Strip(FirstLine(raw_block))
             ELSE SubSeq(raw_block, 1, TitleFallback),
   article_id |-> extract_article_id(raw_block),
   tokens |-> Range(extract_keywords(raw_block))]

\* the body of get_regulation_blocks
BuildRegulationBlocks(text) ==
  LET raws == split_blocks(text)
  IN [i \in 1..Len(raws) |-> RegulationBlock(raws[i])]

\* ---------------------------------------------------------------- router

Max(a, b) == IF a >= b THEN a ELSE b
Min(a, b) == IF a <= b THEN a ELSE b

keyword_score(question, keywords) ==
  LET text == Lower(question)
  IN Cardinality({k \in keywords : IsSubstring(k, text)})

RECURSIVE BestOverlapLoop(_, _, _, _)
BestOverlapLoop(tokens, token_sets, i, best) ==
  IF i > Len(token_sets) THEN best
  ELSE LET overlap == Cardinality(tokens \cap token_sets[i])
       IN BestOverlapLoop(tokens, token_sets, i + 1,
                          IF overlap > best THEN overlap ELSE best)

best_overlap_score(tokens, token_sets) ==
  IF tokens = {} THEN 0 ELSE BestOverlapLoop(tokens, token_sets, 1, 0)

KeywordWeight == 2
ArticleBonus == 4

\* compute_route_scores with the article bonus added to every question
route_scores_always_bonus(question, tokens, geo_entries, reg_blocks) ==
  [geo_total |-> keyword_score(question, GEO_KEYWORDS) * 2
                 + best_overlap_score(
                     tokens,
                     [i \in 1..Len(geo_entries) |-> geo_entries[i].tokens]),
   reg_total |-> keyword_score(question, REGULATION_KEYWORDS) * 2
                 + best_overlap_score(
                     tokens,
                     [i \in 1..Len(reg_blocks) |-> reg_blocks[i].tokens])
                 + 4,
   article_ref |-> match_article_reference(question)]

compute_route_scores(question, tokens, geo_entries, reg_blocks) ==
  LET geo_kw == keyword_score(question, GEO_KEYWORDS)
      reg_kw == keyword_score(question, REGULATION_KEYWORDS)
      geo_match == best_overlap_score(
                     tokens, [i \in 1..Len(geo_entries) |-> geo_entries[i].tokens])
      reg_match == best_overlap_score(
                     tokens, [i \in 1..Len(reg_blocks) |-> reg_blocks[i].tokens])
      article_ref == match_article_reference(question)
  IN [geo_total |-> geo_kw * KeywordWeight + geo_match,
      reg_total |-> reg_kw * KeywordWeight + reg_match
                    + (IF Truthy(article_ref) THEN ArticleBonus ELSE 0),
      article_ref |-> article_ref]

Abs(n) == IF n < 0 THEN -n ELSE n

NearTie == 1

\* decide_source taking only equal totals for a tie
decide_source_equal_only(geo_total, reg_total) ==
  IF geo_total = reg_total THEN "unknown"
  ELSE IF geo_total > reg_total THEN "geo" ELSE "regulation"

decide_source(geo_total, reg_total) ==
  IF geo_total = 0 /\ reg_total = 0 THEN "unknown"
  ELSE IF Abs(geo_total - reg_total) <= NearTie THEN "unknown"
  ELSE IF geo_total > reg_total THEN "geo" ELSE "regulation"

\* ------------------------------------------------------------ confidence

\* round(n / d, 2) in hundredths, for 0 <= n and 0 < d < 40: the quotient
\* is then exactly halfway between two hundredths only when it is a
\* multiple of 1/8, which a double holds exactly, and round() takes such a
\* tie to the even hundredth
Round2(n, d) ==
  LET q == (100 * n) \div d
      r == (100 * n) % d
  IN IF 2 * r < d THEN q
     ELSE IF 2 * r > d THEN q + 1
     ELSE IF q % 2 = 0 THEN q ELSE q + 1

\* For an odd sum s of two hundredths, HalfUp[(s + 1) \div 2] holds the
\* smaller summands a for which the double (a/100 + (s - a)/100) / 2 lies
\* above the decimal midpoint, so that round(., 2) goes up.
HalfUp ==
  << {0},
     {},
     0..2,
     {0} \cup 2..3,
     {2},
     0..5,
     0..6,
     {1} \cup {5} \cup {7},
     0..1 \cup 3..4 \cup {7},
     0..9,
     {1} \cup 4..5 \cup 7..8 \cup {10},
     0..1 \cup 3..4 \cup 6..7 \cup 9..10,
     {},
     0..13,
     1..3 \cup 6..7 \cup 9..10 \cup 12..14,
     {3} \cup {14},
     0..2 \cup 5..8 \cup 10..11 \cup 13..14 \cup {16},
     1..2 \cup 7..8,
     {},
     0..3 \cup 5..19,
     1..3 \cup 7..10 \cup 13..20,
     {3} \cup 9..10 \cup 15..17 \cup {20},
     0..2 \cup 5..8 \cup 11..14 \cup 17..20 \cup {22},
     1..2 \cup 7..8 \cup 13..14 \cup 19..20,
     {},
     0..25,
     0..26,
     0..7 \cup 9..27,
     1..7 \cup 11..14 \cup 17..20 \cup 23..28,
     3..7 \cup 13..14 \cup 19..20 \cup 25..28,
     5..7 \cup 27..28,
     0..5 \cup 7..31,
     0..5 \cup 9..17 \cup 19..23 \cup 25..28 \cup 31..32,
     0..5 \cup 11..17 \cup 21..23 \cup 27..28 \cup {33},
     1..5 \cup 13..17 \cup {23},
     3..5 \cup 15..17,
     {5} \cup {17},
     0..37,
     0..7 \cup 9..38,
     0..7 \cup 11..20 \cup 23..39,
     0..7 \cup 13..20 \cup 25..40,
     2..7 \cup 15..20 \cup 27..34 \cup 37..40,
     4..7 \cup 17..20 \cup 29..34 \cup 39..40,
     6..7 \cup 19..20 \cup 31..34,
     0..5 \cup 8..17 \cup 21..28 \cup 33..40 \cup 43..44,
     0..5 \cup 10..17 \cup 23..28 \cup 35..40 \cup {45},
     0..5 \cup 12..17 \cup 25..28 \cup 37..40,
     2..5 \cup 14..17 \cup 27..28 \cup 39..40,
     4..5 \cup 16..17,
     {},
     1..50,
     3..51,
     5..34 \cup 37..46 \cup 49..52,
     7..11 \cup 14..23 \cup 26..34 \cup 39..46 \cup 51..53,
     9..11 \cup 16..23 \cup 28..34 \cup 41..46 \cup 53..54,
     {11} \cup 18..23 \cup 30..34 \cup 43..46 \cup {55},
     20..23 \cup 32..34 \cup 45..46,
     22..23 \cup {34},
     {},
     {},
     {},
     {},
     {},
     27..63,
     29..64,
     31..65,
     33..66,
     35..40 \cup 42..67,
     37..40 \cup 44..68,
     39..40 \cup 46..56 \cup 58..68,
     48..56 \cup 60..68,
     50..56 \cup 62..68,
     52..56 \cup 64..68,
     54..56 \cup 66..68,
     {56} \cup {68},
     51..56 \cup 58..68 \cup 70..75,
     53..56 \cup 60..68 \cup 72..76,
     55..56 \cup 62..68 \cup 74..77,
     64..68 \cup 76..78,
     66..68 \cup 78..79,
     {68} \cup {80},
     {},
     {},
     {},
     {},
     {},
     {},
     75..87,
     77..88,
     79..89,
     81..90,
     83..91,
     85..92,
     87..93,
     89..93,
     91..93,
     {93},
     {},
     {},
     {} >>

\* round((a + b) / 2, 2) for doubles a/100 and b/100, in hundredths
MeanRound2(a, b) ==
  LET s == a + b
  IN IF s % 2 = 0 THEN s \div 2
     ELSE IF Min(a, b) \in HalfUp[(s + 1) \div 2] THEN s \div 2 + 1
     ELSE s \div 2

compute_route_confidence(geo_total, reg_total) ==
  LET max_total == Max(geo_total, reg_total)
  IN IF max_total = 0 THEN 0
     ELSE Round2(max_total - Min(geo_total, reg_total), max_total)

\* compute_match_confidence without the cap at 1.0
match_confidence_uncapped(best_score, token_count, article_match) ==
  IF article_match THEN 100
  ELSE IF token_count <= 0 THEN 0
  ELSE Round2(best_score, token_count)

compute_match_confidence(best_score, token_count, article_match) ==
  IF article_match THEN 100
  ELSE IF token_count <= 0 THEN 0
  ELSE Min(100, Round2(best_score, token_count))

\* --------------------------------------------------------------- matcher

\* a score that counts the question's tokens only when the entry has them
\* all
score_match_all_tokens(tokens, entry_tokens, boost) ==
  (IF tokens \subseteq entry_tokens THEN Cardinality(tokens) ELSE 0) + boost

score_match(tokens, entry_tokens, boost) ==
  Cardinality(tokens \cap entry_tokens) + boost

PhraseMinLen == 4
PhraseBoost == 3

phrase_boost(phrase, question_norm) ==
  IF phrase = <<>> THEN 0
  ELSE LET normalized == normalize_phrase(phrase)
       IN IF Len(normalized) < PhraseMinLen THEN 0
          ELSE IF normalized # <<>> /\ IsSubstring(normalized, question_norm)
               THEN PhraseBoost ELSE 0

DefaultTopK == 3
TopKCap == 5

\* clamp_top_k without the default for a requested k <= 0
clamp_top_k_no_default(top_k) == IF top_k < 5 THEN top_k ELSE 5

clamp_top_k(top_k) ==
  IF top_k <= 0 THEN DefaultTopK ELSE Min(top_k, TopKCap)

\* an unstable sort: an item goes ahead of the items of equal score
RECURSIVE InsertAheadOfEqual(_, _)
InsertAheadOfEqual(sorted, item) ==
  IF sorted = <<>> THEN <<item>>
  ELSE IF Head(sorted).score > item.score
       THEN <<Head(sorted)>> \o InsertAheadOfEqual(Tail(sorted), item)
       ELSE <<item>> \o sorted

\* list.sort(key=score, reverse=True): a stable sort, so an item goes
\* behind every item already placed whose score is at least its own
RECURSIVE InsertByScore(_, _)
InsertByScore(sorted, item) ==
  IF sorted = <<>> THEN <<item>>
  ELSE IF Head(sorted).score >= item.score
       THEN <<Head(sorted)>> \o InsertByScore(Tail(sorted), item)
       ELSE <<item>> \o sorted

RECURSIVE SortLoop(_, _, _)
SortLoop(items, i, sorted) ==
  IF i > Len(items) THEN sorted
  ELSE SortLoop(items, i + 1, InsertByScore(sorted, items[i]))

SortByScoreDesc(items) == SortLoop(items, 1, <<>>)

\* matches[:top_k]
Take(s, n) == SubSeq(s, 1, Min(n, Len(s)))

\* a filter that keeps the candidates of score 0
IsHitOrZero(m) == m.score >= 0

IsHit(m) == m.score # 0

\* ------------------------------------------------------------ formatting
\* A formatted answer is the record of its literal lead-in and of the
\* pieces substituted into it.

Answer(text, name, details, snippet) ==
  [text |-> text, name |-> name, details |-> details, snippet |-> snippet]

UnknownName == <<"(","u","n","k","n","o","w","n"," ","n","a","m","e",")">>

Detail(key, value) == [key |-> key, value |-> value.val]

format_geo_answer(entry) ==
  LET name == IF entry.name # <<>> THEN entry.name ELSE UnknownName
      api_summary == summarize_api_name(entry.api_name_dict)
      details ==
        (IF Truthy(entry.status) THEN <<Detail("status", entry.status)>>
         ELSE <<>>)
        \o (IF Truthy(entry.distance_m)
            THEN <<Detail("distance_m", entry.distance_m)>> ELSE <<>>)
        \o (IF Truthy(entry.overlap_fraction)
            THEN <<Detail("overlap_fraction", entry.overlap_fraction)>>
            ELSE <<>>)
        \o (IF Truthy(api_summary) THEN <<Detail("details", api_summary)>>
            ELSE <<>>)
  IN Answer("Match in geo data: ", name, details, <<>>)

format_geo_match(entry, score) ==
  [name |-> IF entry.name # <<>> THEN entry.name ELSE UnknownName,
   score |-> score,
   status |-> entry.status,
   distance_m |-> entry.distance_m,
   overlap_fraction |-> entry.overlap_fraction,
   details |-> summarize_api_name(entry.api_name_dict)]

Ellipsis == <<".", ".", ".">>

\* s.rsplit(" ", 1)[0]: what precedes the last space, or all of s
RSplitHead(s) ==
  LET sp == {i \in 1..Len(s) : s[i] = " "}
  IN IF sp = {} THEN s
     ELSE SubSeq(s, 1, (CHOOSE i \in sp : \A j \in sp : j <= i) - 1)

\* snippet[:cut].rsplit(" ", 1)[0] + "..."
Truncate(snippet, cut) ==
  RSplitHead(SubSeq(snippet, 1, Min(cut, Len(snippet)))) \o Ellipsis

AnswerMax == 300
AnswerCut == 297
SummaryMax == 160
SummaryCut == 157

RegulationAnswerSnippet(raw) ==
  LET snippet == collapse_whitespace(raw)
  IN IF Len(snippet) > AnswerMax THEN Truncate(snippet, AnswerCut)
     ELSE snippet

format_regulation_answer(block) ==
  Answer("From regulation data: ", <<>>, <<>>,
         RegulationAnswerSnippet(block.raw))

RegulationMatchSnippet(raw) ==
  LET snippet == collapse_whitespace(raw)
  IN IF Len(snippet) > SummaryMax THEN Truncate(snippet, SummaryCut)
     ELSE snippet

format_regulation_match(block, score) ==
  [title |-> block.title,
   article |-> block.article_id,
   score |-> score,
   snippet |-> RegulationMatchSnippet(block.raw)]

\* ---------------------------------------------------------------- search
\* A SearchResult; `matches` is the sorted local list of the search, each
\* item the score and the position of its entry in the dataset.

SearchResult(answer, top_matches, best_score, matched_id, matches) ==
  [answer |-> answer, top_matches |-> top_matches, best_score |-> best_score,
   matched_id |-> matched_id, matches |-> matches]

GeoScores(entries, tokens, question_norm) ==
  [i \in 1..Len(entries) |->
     [score |-> score_match(tokens, entries[i].tokens,
                            phrase_boost(entries[i].name, question_norm)),
      idx |-> i]]

\* lines 211-222: the result for the sorted matches and the clamped top_k
GeoResult(entries, matches, k) ==
  IF matches = <<>>
  THEN SearchResult(
         Answer("No relevant geo match found in the mock data.",
                <<>>, <<>>, <<>>),
         <<>>, 0, None, matches)
  ELSE SearchResult(
         format_geo_answer(entries[matches[1].idx]),
         [i \in 1..Len(Take(matches, k)) |->
            format_geo_match(entries[matches[i].idx], matches[i].score)],
         matches[1].score, None, matches)

search_geo(entries, question, top_k) ==
  GeoResult(entries,
            SortByScoreDesc(
              SelectSeq(GeoScores(entries, Range(extract_keywords(question)),
                                  normalize_phrase(question)),
                        IsHit)),
            clamp_top_k(top_k))

ArticleMatchBonus == 10

RegulationScores(blocks, tokens, question_norm, article_ref) ==
  [i \in 1..Len(blocks) |->
     [score |-> score_match(tokens, blocks[i].tokens,
                            phrase_boost(blocks[i].title, question_norm))
                + (IF Truthy(article_ref) /\ blocks[i].article_id = article_ref
                   THEN ArticleMatchBonus ELSE 0),
      idx |-> i]]

\* RegulationResult reporting the article reference as matched_id whichever
\* block won
RegulationResultAnyBlock(blocks, article_ref, matches, k) ==
  IF matches = <<>>
  THEN [answer |-> [text |-> "No relevant regulation match found in the mock data.",
                    name |-> <<>>, details |-> <<>>, snippet |-> <<>>],
        top_matches |-> <<>>, best_score |-> 0, matched_id |-> None,
        matches |-> matches]
  ELSE [answer |-> format_regulation_answer(blocks[matches[1].idx]),
        top_matches |->
          [i \in 1..Len(Take(matches, k)) |->
             format_regulation_match(blocks[matches[i].idx], matches[i].score)],
        best_score |-> matches[1].score,
        matched_id |-> IF Truthy(article_ref) THEN article_ref ELSE None,
        matches |-> matches]

\* lines 244-263: the result for the sorted matches and the clamped top_k
RegulationResult(blocks, article_ref, matches, k) ==
  IF matches = <<>>
  THEN SearchResult(
         Answer("No relevant regulation match found in the mock data.",
                <<>>, <<>>, <<>>),
         <<>>, 0, None, matches)
  ELSE SearchResult(
         format_regulation_answer(blocks[matches[1].idx]),
         [i \in 1..Len(Take(matches, k)) |->
            format_regulation_match(blocks[matches[i].idx], matches[i].score)],
         matches[1].score,
         IF Truthy(article_ref)
            /\ blocks[matches[1].idx].article_id = article_ref
         THEN article_ref ELSE None,
         matches)

\* lines 233-242, for the resolved article reference
SearchRegulationFor(blocks, question, top_k, article_ref) ==
  RegulationResult(blocks, article_ref,
                   SortByScoreDesc(
                     SelectSeq(RegulationScores(
                                 blocks, Range(extract_keywords(question)),
                                 normalize_phrase(question), article_ref),
                               IsHit)),
                   clamp_top_k(top_k))

search_regulation(blocks, question, top_k, article_ref_arg) ==
  SearchRegulationFor(blocks, question, top_k,
                      OrElse(article_ref_arg,
                             match_article_reference(question)))

\* ---------------------------------------------------------------- answer

route_question(geo_entries, reg_blocks, question) ==
  LET s == compute_route_scores(question, Range(extract_keywords(question)),
                                geo_entries, reg_blocks)
  IN decide_source(s.geo_total, s.reg_total)

\* the mean of the two confidences whatever the source
MeanConfidence(source, route_confidence, match_confidence) ==
  MeanRound2(route_confidence, match_confidence)

FinalConfidence(source, route_confidence, match_confidence) ==
  IF source = "unknown" THEN 0
  ELSE MeanRound2(route_confidence, match_confidence)

\* lines 172-187: the AnswerResult; `search` is the SearchResult it was
\* made from
AnswerResult(source, s, search_result, processing_ms, route_confidence, match_confidence) ==
  [answer |-> search_result.answer,
   source |-> source,
   meta |-> [confidence |-> FinalConfidence(source, route_confidence,
                                            match_confidence),
             route_confidence |-> route_confidence,
             match_confidence |-> match_confidence,
             route_scores |-> [geo |-> s.geo_total,
                               regulation |-> s.reg_total],
             top_matches |-> search_result.top_matches,
             processing_ms |-> processing_ms,
             data_file |-> IF source = "geo" THEN "mock_geo_data.csv"
                           ELSE IF source = "regulation"
                                THEN "mock_regulation_data.txt"
                           ELSE "None",
             matched_article |-> IF Truthy(search_result.matched_id)
                                 THEN search_result.matched_id ELSE None],
   search |-> search_result]

\* lines 147-161: the search of the chosen source
SearchFor(source, geo_entries, reg_blocks, question, top_k, article_ref) ==
  IF source = "geo" THEN search_geo(geo_entries, question, top_k)
  ELSE IF source = "regulation"
       THEN search_regulation(reg_blocks, question, top_k, article_ref)
  ELSE SearchResult(
         Answer("I could not determine which data source applies to that question.",
                <<>>, <<>>, <<>>),
         <<>>, 0, None, <<>>)

\* lines 163-166: the two confidences of a search result
AnswerSearched(source, s, search_result, processing_ms, token_count) ==
  AnswerResult(source, s, search_result, processing_ms,
               compute_route_confidence(s.geo_total, s.reg_total),
               compute_match_confidence(search_result.best_score, token_count,
                                        search_result.matched_id.some))

\* lines 145-161, for the route scores s
AnswerRouted(geo_entries, reg_blocks, question, top_k, processing_ms, token_count, s) ==
  AnswerSearched(decide_source(s.geo_total, s.reg_total), s,
                 SearchFor(decide_source(s.geo_total, s.reg_total),
                           geo_entries, reg_blocks, question, top_k,
                           s.article_ref),
                 processing_ms, token_count)

answer_question(geo_entries, reg_blocks, question, top_k, processing_ms) ==
  AnswerRouted(geo_entries, reg_blocks, question, top_k, processing_ms,
               Cardinality(Range(extract_keywords(question))),
               compute_route_scores(question,
                                    Range(extract_keywords(question)),
                                    geo_entries, reg_blocks))

\* rows of mock_geo_data.csv as csv.DictReader yields them (a short row
\* leaves its last columns None)
GeoRows ==
  << [name |-> Some(<<"P","a","r","k"," ","b","o","s">>), status |-> Some(<<"o","p","e","n">>),
      distance_m |-> Some(<<"1","2","0">>), overlap_fraction |-> Some(<<"0",".","5">>),
      api_name |-> Some(<<"N","U","L","L">>)],
     [name |-> Some(<<"W","a","t","e","r">>), status |-> Some(<<"N","U","L","L">>),
      distance_m |-> Some(<<>>), overlap_fraction |-> Some(<<>>),
      api_name |-> Some(<<>>)],
     [name |-> Some(<<"P","a","r","k">>), status |-> Some(<<>>),
      distance_m |-> None, overlap_fraction |-> None,
      api_name |-> None],
     [name |-> Some(<<" ","B","o","s"," ","p","a","r","k"," ">>), status |-> Some(<<"o","p","e","n">>),
      distance_m |-> Some(<<>>), overlap_fraction |-> Some(<<>>),
      api_name |-> Some(<<"n","u","l","l">>)],
     [name |-> Some(<<"P","a","r","k"," ","w","e","g">>), status |-> Some(<<>>),
      distance_m |-> Some(<<>>), overlap_fraction |-> Some(<<>>),
      api_name |-> Some(<<>>)],
     [name |-> Some(<<"B","o","s">>), status |-> Some(<<" ">>),
      distance_m |-> Some(<<>>), overlap_fraction |-> Some(<<>>),
      api_name |-> Some(<<>>)],
     [name |-> Some(<<"G","r","o","e","n"," ","p","a","r","k">>), status |-> Some(<<>>),
      distance_m |-> Some(<<>>), overlap_fraction |-> Some(<<>>),
      api_name |-> Some(<<>>)],
     [name |-> Some(<<"P","a","r","k">>), status |-> Some(<<>>),
      distance_m |-> Some(<<"1","2">>), overlap_fraction |-> Some(<<>>),
      api_name |-> Some(<<>>)] >>

\* the text of mock_regulation_data.txt: three blocks, separated by a
\* blank line holding a space and by two blank lines
RegulationText ==
  << "A","r","t","."," ","5"," ","B","o","u","w","l","a","a",
     "g","\n","E","e","n"," ","b","o","u","w","l","a","a","g",
     " ","i","s"," ","g","r","o","e","n",".","\n"," ","\n","G",
     "r","o","e","n"," ","z","o","n","e","\n","B","o","m","e",
     "n"," ","i","n"," ","h","e","t"," ","g","r","o","e","n",
     ".","\n","\n","\n","A","r","t","."," ","0",".","4"," ","B",
     "o","m","e","n","\n" >>

\* the words and phrases questions are made of
Vocabulary ==
  { <<"p","a","r","k">>,
    <<"m","a","p">>,
    <<"g","r","o","e","n">>,
    <<"c","a","p","i","t","a","l">>,
    <<"A","r","t","."," ","5">>,
    <<"p","a","r","t","7">> }
\* ---------------------------------------------------------------- inputs

MaxWords == 2
MaxTopK == 6
MaxTotal == 9
MaxProcessingMs == 1

\* requested top_k values, from below the default branch to above the cap
TopKs == (-1)..MaxTopK

\* a question: up to MaxWords words of the vocabulary, single-spaced
Questions ==
  {JoinSpace(ws) : ws \in UNION {[1..n -> Vocabulary] : n \in 0..MaxWords}}

\* an article_ref argument given to search_regulation (None is its default)
ArticleRefArgs ==
  {Some(<<>>), Some(<<"a","r","t","."," ","0",".","4">>),
   Some(<<"a","r","t","."," ","7">>)}

\* regulation texts for the formatters: words of the given lengths, put
\* together with the separator
WordOfLen(n) == [i \in 1..n |-> "x"]

RECURSIVE JoinWith(_, _)
JoinWith(parts, sep) ==
  IF parts = <<>> THEN <<>>
  ELSE IF Len(parts) = 1 THEN parts[1]
  ELSE parts[1] \o sep \o JoinWith(Tail(parts), sep)

TextWordLens == {2, 140, 157, 158, 297, 298}
TextSeparators == {<<" ">>, <<"\n", " ">>}

\* texts of one word and of two
Texts ==
  {WordOfLen(a) : a \in TextWordLens}
  \cup {JoinWith(<<WordOfLen(a), WordOfLen(b)>>, sep) :
          a \in TextWordLens, b \in TextWordLens, sep \in TextSeparators}

\* a JSON value of the request body
JMissing == [t |-> "missing", n |-> 0, s |-> <<>>]
JNull == [t |-> "null", n |-> 0, s |-> <<>>]
JInt(n) == [t |-> "int", n |-> n, s |-> <<>>]
JStr(s) == [t |-> "str", n |-> 0, s |-> s]

RequestQuestions ==
  {JMissing, JNull, JInt(0), JInt(5), JStr(<<>>), JStr(<<" ", "\t">>)}
  \cup {JStr(<<" ">> \o w \o <<"\n">>) : w \in Vocabulary}

RequestAltQuestions == {JMissing, JStr(<<"p","a","r","k"," ","m","a","p">>)}

RequestTopKs ==
  {JMissing, JNull, JInt(1), JInt(0), JStr(<<" ", "2">>), JStr(<<"-", "1">>),
   JStr(<<"x">>), JStr(<<>>)}

\* request.data: a mapping with the keys question, q and top_k, or, for a
\* JSON body that is no object, a value without .get
RequestBodies ==
  {[is_mapping |-> TRUE, question |-> qv, q |-> av, top_k |-> kv] :
     qv \in RequestQuestions, av \in RequestAltQuestions, kv \in RequestTopKs}
  \cup {[is_mapping |-> FALSE, question |-> JMissing, q |-> JMissing,
         top_k |-> JMissing]}

NoInput ==
  [kind |-> "none", question |-> <<>>, top_k |-> 0, article_ref |-> None,
   a |-> 0, b |-> 0, flag |-> FALSE, text |-> <<>>,
   data |-> [is_mapping |-> FALSE, question |-> JMissing, q |-> JMissing,
             top_k |-> JMissing]]

\* ----------------------------------------------------------------- state

VARIABLES
  geo_file,      \* mock_geo_data.csv: its rows, or None when unreadable
  reg_file,      \* mock_regulation_data.txt: its text, or None
  geo_rows,      \* lru_cache of data.load_geo_rows
  reg_text,      \* lru_cache of data.load_regulation_text
  geo_entries,   \* lru_cache of get_geo_entries
  reg_blocks,    \* lru_cache of get_regulation_blocks
  builds,        \* how often each index was built
  inp,           \* the arguments of the calls of this run
  ret            \* the last call and what it returned

vars == <<geo_file, reg_file, geo_rows, reg_text, geo_entries, reg_blocks,
          builds, inp, ret>>

Returned(op, value) == [op |-> op, raised |-> FALSE, value |-> value]
Raised(op) == [op |-> op, raised |-> TRUE, value |-> <<>>]

\* The index of each file of this model, computed once: the build is a
\* function of the file's content alone.
GeoIndex == BuildGeoEntries(GeoRows)
RegulationIndex == BuildRegulationBlocks(RegulationText)

IndexOfRows(rows) ==
  IF rows = GeoRows THEN GeoIndex ELSE BuildGeoEntries(rows)

IndexOfText(text) ==
  IF text = RegulationText THEN RegulationIndex
  ELSE BuildRegulationBlocks(text)

\* get_geo_entries() without its cache: the index is built on every call
GeoAccessUncached ==
  LET rows == IF geo_rows.some THEN geo_rows ELSE geo_file
  IN IF ~rows.some
     THEN [ok |-> FALSE, entries |-> None, rows |-> None, built |-> 0]
     ELSE [ok |-> TRUE, entries |-> Some(IndexOfRows(rows.val)),
           rows |-> rows, built |-> 1]

\* get_geo_entries(): the cached index, or load, build and cache it; the
\* load raises when the file cannot be read, and nothing is cached then
GeoAccess ==
  IF geo_entries.some
  THEN [ok |-> TRUE, entries |-> geo_entries, rows |-> geo_rows, built |-> 0]
  ELSE LET rows == IF geo_rows.some THEN geo_rows ELSE geo_file
       IN IF ~rows.some
          THEN [ok |-> FALSE, entries |-> None, rows |-> None, built |-> 0]
          ELSE [ok |-> TRUE, entries |-> Some(IndexOfRows(rows.val)),
                rows |-> rows, built |-> 1]

\* get_regulation_blocks(), likewise
RegAccess ==
  IF reg_blocks.some
  THEN [ok |-> TRUE, entries |-> reg_blocks, rows |-> reg_text, built |-> 0]
  ELSE LET text == IF reg_text.some THEN reg_text ELSE reg_file
       IN IF ~text.some
          THEN [ok |-> FALSE, entries |-> None, rows |-> None, built |-> 0]
          ELSE [ok |-> TRUE, entries |-> Some(IndexOfText(text.val)),
                rows |-> text, built |-> 1]

UseGeo(g) ==
  /\ geo_entries' = g.entries
  /\ geo_rows' = g.rows
UseReg(r) ==
  /\ reg_blocks' = r.entries
  /\ reg_text' = r.rows

Env == <<geo_file, reg_file, inp>>

\* get_geo_entries() then get_regulation_blocks(), as answer_question and
\* route_question call them: the second is not reached when the first raises
UseBoth(g, r) ==
  /\ UseGeo(g)
  /\ IF g.ok THEN UseReg(r) ELSE UNCHANGED <<reg_blocks, reg_text>>
  /\ builds' = [geo |-> builds.geo + g.built,
                reg |-> builds.reg + (IF g.ok THEN r.built ELSE 0)]

\* the questions of one word
Words == {q \in Questions : q \in Vocabulary}

Init ==
  /\ geo_rows = None /\ reg_text = None
  /\ geo_entries = None /\ reg_blocks = None
  /\ builds = [geo |-> 0, reg |-> 0]
  /\ ret = Returned("none", <<>>)
  /\ \/ /\ geo_file = Some(GeoRows)
        /\ reg_file = Some(RegulationText)
        /\ \/ \E q \in Questions, k \in TopKs :
                inp = [NoInput EXCEPT !.kind = "query", !.question = q,
                                      !.top_k = k]
           \/ \E q \in Questions, k \in TopKs, ref \in ArticleRefArgs :
                inp = [NoInput EXCEPT !.kind = "search", !.question = q,
                                      !.top_k = k, !.article_ref = ref]
           \/ \E a \in 0..MaxTotal, b \in 0..MaxTotal, f \in BOOLEAN :
                inp = [NoInput EXCEPT !.kind = "numbers", !.a = a, !.b = b,
                                      !.flag = f]
           \/ \E t \in Texts, n \in {1, ArticleMatchBonus} :
                inp = [NoInput EXCEPT !.kind = "text", !.text = t, !.a = n]
     \/ /\ geo_file \in {None, Some(GeoRows)}
        /\ reg_file \in {None, Some(RegulationText)}
        /\ \E d \in RequestBodies :
             inp = [NoInput EXCEPT !.kind = "request", !.data = d]
     \/ /\ geo_file \in {None, Some(GeoRows)}
        /\ reg_file \in {None, Some(RegulationText)}
        /\ ~(geo_file.some /\ reg_file.some)
        /\ \E q \in Words, k \in TopKs :
             inp = [NoInput EXCEPT !.kind = "query", !.question = q,
                                   !.top_k = k]

\* --------------------------------------------------------------- actions

\* lines 137 and 172: processing_ms is the time between two readings of
\* the clock, and nothing else of the result depends on it
Elapsed(result, ms) == [result EXCEPT !.meta.processing_ms = ms]

AnswerQuestionReturns(result) ==
  \E ms \in 0..MaxProcessingMs :
    ret' = Returned("answer_question", Elapsed(result, ms))

AnswerQuestionWith(g, r) ==
  /\ UseBoth(g, r)
  /\ IF g.ok /\ r.ok
     THEN AnswerQuestionReturns(
            answer_question(g.entries.val, r.entries.val, inp.question,
                            inp.top_k, 0))
     ELSE ret' = Raised("answer_question")

AnswerQuestion ==
  /\ inp.kind = "query"
  /\ AnswerQuestionWith(GeoAccess, RegAccess)
  /\ UNCHANGED Env

RouteQuestionWith(g, r) ==
  /\ UseBoth(g, r)
  /\ ret' = IF g.ok /\ r.ok
            THEN Returned("route_question",
                          route_question(g.entries.val, r.entries.val,
                                         inp.question))
            ELSE Raised("route_question")

RouteQuestion ==
  /\ inp.kind = "query"
  /\ RouteQuestionWith(GeoAccess, RegAccess)
  /\ UNCHANGED Env

SearchGeoWith(g) ==
  /\ UseGeo(g)
  /\ builds' = [builds EXCEPT !.geo = @ + g.built]
  /\ ret' = IF g.ok
            THEN Returned("search_geo",
                          search_geo(g.entries.val, inp.question, inp.top_k))
            ELSE Raised("search_geo")

SearchGeo ==
  /\ inp.kind = "query"
  /\ SearchGeoWith(GeoAccess)
  /\ UNCHANGED <<Env, reg_blocks, reg_text>>

SearchRegulationWith(r) ==
  /\ UseReg(r)
  /\ builds' = [builds EXCEPT !.reg = @ + r.built]
  /\ ret' = IF r.ok
            THEN Returned("search_regulation",
                          search_regulation(r.entries.val, inp.question,
                                            inp.top_k, inp.article_ref))
            ELSE Raised("search_regulation")

SearchRegulation ==
  /\ inp.kind \in {"query", "search"}
  /\ SearchRegulationWith(RegAccess)
  /\ UNCHANGED <<Env, geo_entries, geo_rows>>

Caches == <<geo_rows, reg_text, geo_entries, reg_blocks, builds>>

DecideSource ==
  /\ inp.kind = "numbers"
  /\ ret' = Returned("decide_source", decide_source(inp.a, inp.b))
  /\ UNCHANGED <<Env, Caches>>

ComputeRouteConfidence ==
  /\ inp.kind = "numbers"
  /\ ret' = Returned("compute_route_confidence",
                     compute_route_confidence(inp.a, inp.b))
  /\ UNCHANGED <<Env, Caches>>

ComputeMatchConfidence ==
  /\ inp.kind = "numbers"
  /\ ret' = Returned("compute_match_confidence",
                     compute_match_confidence(inp.a, inp.b, inp.flag))
  /\ UNCHANGED <<Env, Caches>>

FormatRegulationAnswer ==
  /\ inp.kind = "text"
  /\ ret' = Returned("format_regulation_answer",
                     format_regulation_answer(RegulationBlock(inp.text)))
  /\ UNCHANGED <<Env, Caches>>

FormatRegulationMatch ==
  /\ inp.kind = "text"
  /\ ret' = Returned("format_regulation_match",
                     format_regulation_match(RegulationBlock(inp.text), inp.a))
  /\ UNCHANGED <<Env, Caches>>

\* ------------------------------------------------------------------ view

JTruthy(v) == (v.t = "int" /\ v.n # 0) \/ (v.t = "str" /\ v.s # <<>>)

\* dict.get(key): a missing key reads as None
JGet(v) == IF v.t = "missing" THEN JNull ELSE v

DigitValue(c) == CHOOSE d \in 0..9 : <<"0","1","2","3","4","5","6","7","8","9">>[d + 1] = c

RECURSIVE DigitsValue(_)
DigitsValue(ds) ==
  IF ds = <<>> THEN 0
  ELSE 10 * DigitsValue(SubSeq(ds, 1, Len(ds) - 1)) + DigitValue(ds[Len(ds)])

\* int(top_k): [ok, n]; a TypeError (None) or a ValueError (a string that
\* is no integer literal) leaves ok FALSE
IntOf(v) ==
  IF v.t = "int" THEN [ok |-> TRUE, n |-> v.n]
  ELSE IF v.t # "str" THEN [ok |-> FALSE, n |-> 0]
  ELSE LET t == Strip(v.s)
           signed == t # <<>> /\ Head(t) \in {"-", "+"}
           ds == IF signed THEN Tail(t) ELSE t
       IN IF IsDigitStr(ds)
          THEN [ok |-> TRUE,
                n |-> IF signed /\ Head(t) = "-" THEN -DigitsValue(ds)
                      ELSE DigitsValue(ds)]
          ELSE [ok |-> FALSE, n |-> 0]

Response(status, body, invoked) ==
  [status |-> status, body |-> body, invoked |-> invoked]

OkResponse(result) ==
  Response(200, [answer |-> result.answer, source |-> result.source,
                 meta |-> result.meta], TRUE)

\* lines 30-45: the try block and the success response
PostReturns(result) ==
  \E ms \in 0..MaxProcessingMs :
    ret' = Returned("post", OkResponse(Elapsed(result, ms)))

PostAnswer(question, k, g, r) ==
  /\ UseBoth(g, r)
  /\ IF g.ok /\ r.ok
     THEN PostReturns(answer_question(g.entries.val, r.entries.val,
                                      Strip(question), k, 0))
     ELSE ret' = Returned("post",
                          Response(500,
                                   [error |-> "failed to process question",
                                    source |-> "unknown"], TRUE))

\* lines 24-45, for the question and the top_k read from the body
PostWith(question, top_k) ==
  IF question.t # "str" \/ Strip(question.s) = <<>>
  THEN /\ ret' = Returned("post",
                          Response(400, [error |-> "question is required",
                                         source |-> "unknown"], FALSE))
       /\ UNCHANGED Caches
  ELSE PostAnswer(question.s,
                  IF IntOf(top_k).ok THEN IntOf(top_k).n ELSE DefaultTopK,
                  GeoAccess, RegAccess)

\* AskAPIView.post: request.data.get raises on a body that is no mapping
Post ==
  /\ inp.kind = "request"
  /\ IF ~inp.data.is_mapping
     THEN /\ ret' = Raised("post")
          /\ UNCHANGED Caches
     ELSE PostWith(IF JTruthy(JGet(inp.data.question))
                   THEN JGet(inp.data.question) ELSE JGet(inp.data.q),
                   IF inp.data.top_k.t = "missing" THEN JInt(DefaultTopK)
                   ELSE inp.data.top_k)
  /\ UNCHANGED Env

\* the caller goes on to another question: the next call of the process
\* has other arguments and finds the caches as the earlier calls left them
NextQuestion ==
  /\ inp.kind = "query"
  /\ ret.op # "none"
  /\ \E q \in Words \ {inp.question} : inp' = [inp EXCEPT !.question = q]
  /\ ret' = Returned("none", <<>>)
  /\ UNCHANGED <<geo_file, reg_file, Caches>>

Next ==
  \/ AnswerQuestion
  \/ RouteQuestion
  \/ SearchGeo
  \/ SearchRegulation
  \/ DecideSource
  \/ ComputeRouteConfidence
  \/ ComputeMatchConfidence
  \/ FormatRegulationAnswer
  \/ FormatRegulationMatch
  \/ Post
  \/ NextQuestion

Spec == Init /\ [][Next]_vars

\* ---------------------------------------------------------------- claims

IsCall(op) == ret.op = op /\ ~ret.raised

\* C1: decide_source returns unknown whenever the two totals differ by at
\* most 1 (both 0 included), whichever is larger, and otherwise the source
\* with the strictly higher total.
C1_DecideSource ==
  IsCall("decide_source") =>
    ret.value = IF inp.a - inp.b \in {-1, 0, 1} THEN "unknown"
                ELSE IF inp.a > inp.b THEN "geo" ELSE "regulation"

\* a near tie won by the regulation total is left unresolved
C1_Witness ==
  /\ IsCall("decide_source")
  /\ inp.a = 2 /\ inp.b = 3
  /\ ret.value = "unknown"

\* the question of the run has no keyword of either set and shares no token
\* with any geo entry or regulation block
NoKeywordNoOverlapOf(text, tokens) ==
  /\ \A k \in GEO_KEYWORDS \cup REGULATION_KEYWORDS : ~IsSubstring(k, text)
  /\ \A i \in DOMAIN geo_entries.val :
       tokens \cap geo_entries.val[i].tokens = {}
  /\ \A i \in DOMAIN reg_blocks.val :
       tokens \cap reg_blocks.val[i].tokens = {}

NoKeywordNoOverlap ==
  NoKeywordNoOverlapOf(Lower(inp.question),
                       Range(extract_keywords(inp.question)))

\* C2 as stated: a question with no geo keyword, no regulation keyword and
\* no token shared with any entry or block is routed to unknown.
C2_Original ==
  (IsCall("route_question") /\ NoKeywordNoOverlap) => ret.value = "unknown"

\* the article pattern art\.?\s*\d+ occurs somewhere in the question
HasArticlePattern ==
  \E i \in 1..Len(inp.question) : ArticleMatchAt(inp.question, i).some

\* C2 (amended): a question with no geo keyword, no regulation keyword, no
\* token shared with any entry or block, and in which the article pattern
\* does not occur, is routed to unknown.
C2_Amended ==
  (IsCall("route_question") /\ NoKeywordNoOverlap /\ ~HasArticlePattern)
    => ret.value = "unknown"

\* a question of two unrelated words is routed to unknown
C2_Witness ==
  /\ IsCall("route_question")
  /\ NoKeywordNoOverlap /\ ~HasArticlePattern
  /\ Len(extract_keywords(inp.question)) > 0
  /\ ret.value = "unknown"

\* C3: the confidence of answer_question is 0.0 when the source is unknown,
\* also with a positive route confidence, and otherwise the mean of
\* route_confidence and match_confidence rounded to two decimals (a
\* hundredth nearest to the mean).
C3_Confidence ==
  IsCall("answer_question") =>
    LET m == ret.value.meta
    IN IF ret.value.source = "unknown" THEN m.confidence = 0
       ELSE /\ m.confidence \in 0..100
            /\ 2 * m.confidence - (m.route_confidence + m.match_confidence)
                 \in {-1, 0, 1}

\* totals 1 and 0: route confidence 1.0, source unknown, confidence 0.0
C3_Witness ==
  /\ IsCall("answer_question")
  /\ ret.value.source = "unknown"
  /\ ret.value.meta.route_scores = [geo |-> 1, regulation |-> 0]
  /\ ret.value.meta.route_confidence = 100
  /\ ret.value.meta.confidence = 0

\* C4: compute_route_confidence is in [0,1], and 0 when both totals are 0;
\* compute_match_confidence is in [0,1] for either value of the flag.
C4_ConfidenceRange ==
  /\ IsCall("compute_route_confidence") =>
       /\ ret.value \in 0..100
       /\ (inp.a = 0 /\ inp.b = 0) => ret.value = 0
  /\ IsCall("compute_match_confidence") => ret.value \in 0..100

\* a best score above the token count, without an article match, gives 1.0
C4_Witness ==
  /\ IsCall("compute_match_confidence")
  /\ ~inp.flag /\ inp.b > 0 /\ inp.a > inp.b
  /\ ret.value = 100

IsSearch == IsCall("search_geo") \/ IsCall("search_regulation")

\* the formatted summary of the i-th ranked match of the last search
SummaryOf(i) ==
  IF ret.op = "search_geo"
  THEN format_geo_match(geo_entries.val[ret.value.matches[i].idx],
                        ret.value.matches[i].score)
  ELSE format_regulation_match(reg_blocks.val[ret.value.matches[i].idx],
                               ret.value.matches[i].score)

\* the formatted answer for the first ranked match of the last search
AnswerOfBest ==
  IF ret.op = "search_geo"
  THEN format_geo_answer(geo_entries.val[ret.value.matches[1].idx])
  ELSE format_regulation_answer(reg_blocks.val[ret.value.matches[1].idx])

\* C5: top_matches of search_geo and search_regulation is ordered by score,
\* highest first; candidates of equal score keep the order of the dataset;
\* its first element is the entry the answer is made from, and its score
\* is best_score.
C5_Ordering ==
  IsSearch =>
    LET tm == ret.value.top_matches
        m == ret.value.matches
    IN /\ Len(tm) <= Len(m)
       /\ \A i \in DOMAIN tm : tm[i] = SummaryOf(i)
       /\ \A i, j \in DOMAIN tm :
            i < j => /\ tm[i].score >= tm[j].score
                     /\ tm[i].score = tm[j].score => m[i].idx < m[j].idx
       /\ tm # <<>> => /\ tm[1].score = ret.value.best_score
                       /\ ret.value.answer = AnswerOfBest

\* three summaries: two of equal score in dataset order, ahead of an entry
\* that stands before both in the dataset
C5_Witness ==
  /\ IsCall("search_geo")
  /\ Len(ret.value.top_matches) >= 3
  /\ ret.value.top_matches[1].score = ret.value.top_matches[2].score
  /\ ret.value.top_matches[2].score > ret.value.top_matches[3].score
  /\ ret.value.matches[1].idx < ret.value.matches[2].idx
  /\ ret.value.matches[3].idx < ret.value.matches[1].idx

\* the scores of all entries of a source for the question of the run, by
\* dataset position
ScoresFor(source) ==
  IF source = "geo"
  THEN AsSeq(GeoScores(geo_entries.val,
                       Range(extract_keywords(inp.question)),
                       normalize_phrase(inp.question)),
             Len(geo_entries.val))
  ELSE AsSeq(RegulationScores(reg_blocks.val,
                              Range(extract_keywords(inp.question)),
                              normalize_phrase(inp.question),
                              OrElse(inp.article_ref,
                                     match_article_reference(inp.question))),
             Len(reg_blocks.val))

ScoresOfSearch ==
  ScoresFor(IF ret.op = "search_geo" THEN "geo" ELSE "regulation")

\* the dataset positions of the candidates with a positive score in sc
PositiveIn(sc) == {i \in DOMAIN sc : sc[i].score > 0}

PositiveCandidates == PositiveIn(ScoresOfSearch)

\* clampTopK as the claim states it
ClaimedTopK(k) == IF k <= 0 THEN 3 ELSE IF k < 5 THEN k ELSE 5

\* tm, the summaries of the entries at the positions top, are those of the
\* k highest-ranked of the positive candidates pos of the scores sc, or of
\* all of them when they are fewer
TopOf(sc, pos, tm, top, k) ==
  /\ Len(tm) = IF Cardinality(pos) < k THEN Cardinality(pos) ELSE k
  /\ Cardinality(top) = Len(tm)
  /\ top \subseteq pos
  /\ \A i \in top : \A j \in pos \ top : sc[i].score >= sc[j].score
  /\ \A i \in DOMAIN tm : tm[i].score = sc[ret.value.matches[i].idx].score

\* C6: with n positive-scoring candidates, top_matches holds exactly
\* min(n, clampTopK(topK)) entries, the highest-ranked ones, clampTopK(k)
\* being 3 for k <= 0 and min(k, 5) otherwise.
C6_TopK ==
  IsSearch =>
    TopOf(ScoresOfSearch, PositiveCandidates, ret.value.top_matches,
          {ret.value.matches[i].idx : i \in DOMAIN ret.value.top_matches},
          ClaimedTopK(inp.top_k))

\* top_k = 1 with three or more positive-scoring geo entries: one summary,
\* of a highest-scoring entry
C6_Witness ==
  /\ IsCall("search_geo")
  /\ inp.top_k = 1
  /\ Cardinality(PositiveCandidates) >= 3
  /\ Len(ret.value.top_matches) = 1
  /\ \A j \in DOMAIN ScoresFor("geo") :
       ret.value.top_matches[1].score >= ScoresFor("geo")[j].score

\* the article reference the regulation search of the run works with
ResolvedRef ==
  IF Truthy(inp.article_ref) THEN inp.article_ref
  ELSE match_article_reference(inp.question)

\* C7: matched_id (meta.matched_article in answer_question) is present only
\* for a regulation search with an article reference, supplied or
\* extracted, that the winning block's article_id equals; geo searches and
\* no-match results carry none; match_confidence is 1.0 whenever it is
\* present.
C7_MatchedId ==
  /\ IsCall("search_geo") => ret.value.matched_id = None
  /\ (IsSearch /\ ret.value.top_matches = <<>>) => ret.value.matched_id = None
  /\ (IsCall("search_regulation") /\ ret.value.matched_id # None) =>
       /\ ret.value.matched_id = ResolvedRef
       /\ Truthy(ret.value.matched_id)
       /\ ret.value.matches # <<>>
       /\ reg_blocks.val[ret.value.matches[1].idx].article_id
            = ret.value.matched_id
       /\ ret.value.top_matches[1].article = ret.value.matched_id
  /\ (IsCall("answer_question") /\ ret.value.meta.matched_article # None) =>
       /\ ret.value.source = "regulation"
       /\ ret.value.meta.matched_article = ResolvedRef
       /\ Truthy(ret.value.meta.matched_article)
       /\ ret.value.meta.top_matches # <<>>
       /\ ret.value.meta.top_matches[1].article
            = ret.value.meta.matched_article
       /\ ret.value.meta.match_confidence = 100

\* a question naming an article: the block of that article wins, and the
\* answer carries the reference with match confidence 1.0
C7_Witness ==
  /\ IsCall("answer_question")
  /\ ret.value.meta.matched_article = Some(<<"a","r","t","."," ","5">>)
  /\ ret.value.meta.match_confidence = 100

\* the result of a formatter of the run is cut at a word boundary of the
\* collapsed text s, or is s itself when s fits in max characters
CutAtWordBoundary(s, max, r) ==
  /\ Len(r) <= max
  /\ Len(s) <= max => r = s
  /\ Len(s) > max =>
       \E n \in 1..(Len(s) - 1) :
         /\ r = SubSeq(s, 1, n) \o <<".", ".", ".">>
         /\ s[n + 1] = " "

\* C8 as stated: the snippet of the regulation answer (max 300) and of the
\* regulation summary (max 160) never exceeds its maximum and is never cut
\* inside a word; a text that fits is returned unchanged.
C8_Original ==
  /\ IsCall("format_regulation_answer") =>
       CutAtWordBoundary(collapse_whitespace(inp.text), 300,
                         ret.value.snippet)
  /\ IsCall("format_regulation_match") =>
       CutAtWordBoundary(collapse_whitespace(inp.text), 160,
                         ret.value.snippet)

NoGeoMatch ==
  Answer("No relevant geo match found in the mock data.", <<>>, <<>>, <<>>)
NoRegulationMatch ==
  Answer("No relevant regulation match found in the mock data.",
         <<>>, <<>>, <<>>)

NoMatchAnswer(source) ==
  IF source = "geo" THEN NoGeoMatch ELSE NoRegulationMatch

NoPositive(source) == PositiveIn(ScoresFor(source)) = {}

\* the source the router chooses for the question of the run
ChosenSource ==
  route_question(geo_entries.val, reg_blocks.val, inp.question)

\* the answer of the run is the no-match answer of the source, when the
\* router chose that source and none of its candidates scores above zero
NoMatchAnswered(source) ==
  (source # "unknown" /\ NoPositive(source)) =>
    /\ ret.value.source = source
    /\ ret.value.answer = NoMatchAnswer(source)
    /\ ret.value.meta.top_matches = <<>>
    /\ ret.value.meta.matched_article = None
    /\ ret.value.search.best_score = 0

\* C9: when no candidate of the searched source scores above zero, the
\* search returns the "no relevant match" answer with best_score 0, empty
\* top_matches and no matched_id; answer_question does not raise, and
\* reports the chosen source, not unknown, with that answer.
C9_NoMatch ==
  /\ (IsCall("search_geo") /\ NoPositive("geo")) =>
       /\ ret.value.answer = NoGeoMatch
       /\ ret.value.best_score = 0
       /\ ret.value.top_matches = <<>>
       /\ ret.value.matched_id = None
  /\ (IsCall("search_regulation") /\ NoPositive("regulation")) =>
       /\ ret.value.answer = NoRegulationMatch
       /\ ret.value.best_score = 0
       /\ ret.value.top_matches = <<>>
       /\ ret.value.matched_id = None
  /\ (ret.op = "answer_question" /\ geo_file.some /\ reg_file.some) =>
       /\ ~ret.raised
       /\ NoMatchAnswered(ChosenSource)

\* a geo keyword routes the question to geo, where no entry matches it
C9_Witness ==
  /\ IsCall("answer_question")
  /\ ret.value.source = "geo"
  /\ NoPositive("geo")
  /\ ret.value.answer = NoGeoMatch
  /\ ret.value.meta.top_matches = <<>>

\* the question the view works with: "question", or "q" when that is
\* missing, null or empty
PostedQuestion ==
  IF JTruthy(JGet(inp.data.question)) THEN JGet(inp.data.question)
  ELSE JGet(inp.data.q)

\* C10 as stated: every failing request gets a response body with source
\* "unknown": 400 without a call of answer_question when the question is
\* missing, not a string or blank; 500 with the generic message when
\* answer_question raises; 200 with answer, source and meta only when it
\* succeeds.
C10_Original ==
  ret.op = "post" =>
    /\ ~ret.raised
    /\ ret.value.status \in {200, 400, 500}
    /\ ret.value.status # 200 => ret.value.body.source = "unknown"
    /\ (PostedQuestion.t # "str" \/ Strip(PostedQuestion.s) = <<>>) =>
         /\ ret.value.status = 400
         /\ ~ret.value.invoked
    /\ ret.value.status = 500 =>
         /\ ret.value.invoked
         /\ ret.value.body = [error |-> "failed to process question",
                              source |-> "unknown"]
    /\ ret.value.status = 200 =>
         /\ ret.value.invoked
         /\ geo_file.some /\ reg_file.some
         /\ DOMAIN ret.value.body = {"answer", "source", "meta"}

\* each index was built at most once, and a cached index is the index of
\* its file
BuiltOnce ==
  /\ builds.geo = (IF geo_entries.some THEN 1 ELSE 0)
  /\ builds.reg = (IF reg_blocks.some THEN 1 ELSE 0)
  /\ geo_entries.some => geo_file.some /\ geo_entries.val = GeoIndex
  /\ reg_blocks.some => reg_file.some /\ reg_blocks.val = RegulationIndex

\* a step leaves an index that is cached as it is, entries, fields and
\* token sets, and builds an index only when none is cached
IndexKept ==
  /\ geo_entries.some => geo_entries' = geo_entries /\ builds'.geo = builds.geo
  /\ reg_blocks.some => reg_blocks' = reg_blocks /\ builds'.reg = builds.reg

\* C11: over any sequence of route_question, answer_question, search_geo
\* and search_regulation calls in one process, each index is built at most
\* once, on first access, and every later call finds the identical index:
\* no call changes an entry, a field or a token set of it.
C11_IndexBuiltOnce == []BuiltOnce /\ [][IndexKept]_vars

\* search_geo has returned after an earlier call built the regulation
\* index: both indexes are cached, each built once
C11_Witness ==
  /\ IsCall("search_geo")
  /\ reg_blocks = Some(RegulationIndex)
  /\ geo_entries = Some(GeoIndex)
  /\ builds = [geo |-> 1, reg |-> 1]

\* the largest number of tokens that one of the token sets shares with
\* the question's tokens
LargestOverlap(tokens, entries) ==
  LET sizes == {Cardinality(tokens \cap entries[i].tokens) :
                  i \in DOMAIN entries} \cup {0}
  IN CHOOSE m \in sizes : \A n \in sizes : n <= m

\* the router's best_overlap_score of a source for the question of the run
OverlapOf(source) ==
  LargestOverlap(Range(extract_keywords(inp.question)),
                 IF source = "geo" THEN geo_entries.val ELSE reg_blocks.val)

\* a result with best score `best`, for a source whose largest overlap is
\* `overlap`: the score is no smaller, and a positive overlap leaves
\* neither the no-match answer nor an empty top_matches
Matched(source, overlap, best, answer, top_matches) ==
  /\ best >= overlap
  /\ overlap > 0 => /\ answer # NoMatchAnswer(source)
                    /\ top_matches # <<>>
                    /\ top_matches[1].score = best

\* C12: the matcher's best_score for a source is at least the router's
\* best_overlap_score for that source; so when answer_question routes to a
\* source whose best_overlap_score is positive, the answer is not the "no
\* relevant match" answer and top_matches is not empty.
C12_ScoreAtLeastOverlap ==
  /\ IsCall("search_geo") =>
       Matched("geo", OverlapOf("geo"), ret.value.best_score,
               ret.value.answer, ret.value.top_matches)
  /\ IsCall("search_regulation") =>
       Matched("regulation", OverlapOf("regulation"), ret.value.best_score,
               ret.value.answer, ret.value.top_matches)
  /\ (IsCall("answer_question") /\ ret.value.source # "unknown") =>
       Matched(ret.value.source, OverlapOf(ret.value.source),
               ret.value.search.best_score, ret.value.answer,
               ret.value.meta.top_matches)

\* answer_question routed to geo for a question that shares a token with a
\* geo entry: a match is returned, its score above the overlap by the
\* phrase boost
C12_Witness ==
  /\ IsCall("answer_question")
  /\ ret.value.source = "geo"
  /\ OverlapOf("geo") > 0
  /\ ret.value.search.best_score > OverlapOf("geo")
  /\ ret.value.meta.top_matches # <<>>
  /\ ret.value.answer # NoGeoMatch
====
